---- MODULE Spec2Model ----
(***************************************************************************)
(* Release-gate check of CI/check_version.py: parse_version,               *)
(* compare_versions and main, with CI/config_parser.py's get_raw_config as *)
(* the source of the current version string.                               *)
(*                                                                         *)
(* A Python str is modelled as a sequence of one-character strings, a      *)
(* list[int] as a sequence of integers.                                    *)
(***************************************************************************)
EXTENDS Integers, Sequences, FiniteSets, TLC

VARIABLES
    pc,                      \* position of main: the next statement to run
    argv,                    \* sys.argv (its tail: the arguments still to pop)
    config,                  \* content of Config.json as get_raw_config sees it
    config_read,             \* TRUE once get_raw_config has opened Config.json
    release_version_string,  \* main's local, line 27
    current_version_string,  \* config.version, the argument of get_current_version
    release_version,         \* main's local, line 29
    current_version,         \* main's local, line 30
    is_valid,                \* main's local, line 32
    printed,                 \* the message printed, "" if none
    raised,                  \* the exception that left main uncaught, "" if none
    exit_status              \* the process's exit status, -1 while it runs

vars == <<pc, argv, config, config_read, release_version_string,
          current_version_string, release_version, current_version,
          is_valid, printed, raised, exit_status>>

----------------------------------------------------------------------------
(* Bounds *)

MaxStrLen == 4        \* longest version string given to parse_version alone
MaxArgLen == 3        \* longest version string of a whole run of main
MaxComponents == 3    \* longest Version given to compare_versions alone
MaxComponent == 2     \* largest component of such a Version

----------------------------------------------------------------------------
(* Characters and strings *)

Digits == {"0", "1", "2", "3", "4", "5", "6", "7", "8", "9"}

\* the characters of the strings given to parse_version alone
Chars == {"0", "1", "7", ".", "-", "+", " ", "_", "x"}

\* the characters of the strings of a whole run of main
ArgChars == {"1", "2", ".", "-", "x"}

StringsOver(alphabet, n) == UNION {[1..k -> alphabet] : k \in 0..n}

DigitVal(ch) ==
    CASE ch = "0" -> 0 [] ch = "1" -> 1 [] ch = "2" -> 2 [] ch = "3" -> 3
      [] ch = "4" -> 4 [] ch = "5" -> 5 [] ch = "6" -> 6 [] ch = "7" -> 7
      [] ch = "8" -> 8 [] ch = "9" -> 9

----------------------------------------------------------------------------
(* str.split('.') *)

RECURSIVE split(_)
split(s) ==
    IF \A i \in 1..Len(s) : s[i] # "."
    THEN <<s>>
    ELSE LET i == CHOOSE j \in 1..Len(s) :
                     s[j] = "." /\ \A k \in 1..(j-1) : s[k] # "."
         IN  <<SubSeq(s, 1, i-1)>> \o split(SubSeq(s, i+1, Len(s)))

----------------------------------------------------------------------------
(* int(str): surrounding whitespace is stripped, one sign is allowed, the   *)
(* rest is decimal digits with single underscores between digits.           *)

RECURSIVE lstrip(_)
lstrip(s) == IF s # <<>> /\ s[1] = " " THEN lstrip(Tail(s)) ELSE s

RECURSIVE rstrip(_)
rstrip(s) ==
    IF s # <<>> /\ s[Len(s)] = " " THEN rstrip(SubSeq(s, 1, Len(s)-1)) ELSE s

strip(s) == rstrip(lstrip(s))

HasSign(s) == s # <<>> /\ s[1] \in {"+", "-"}

Unsigned(s) == IF HasSign(s) THEN Tail(s) ELSE s

\* the digits-and-underscores body int() accepts
ValidBody(b) ==
    /\ b # <<>>
    /\ \A i \in 1..Len(b) : b[i] \in Digits \cup {"_"}
    /\ b[1] \in Digits
    /\ b[Len(b)] \in Digits
    /\ \A i \in 1..(Len(b)-1) : ~(b[i] = "_" /\ b[i+1] = "_")

RECURSIVE Magnitude(_, _)
Magnitude(b, acc) ==
    IF b = <<>> THEN acc
    ELSE IF b[1] = "_" THEN Magnitude(Tail(b), acc)
    ELSE Magnitude(Tail(b), acc * 10 + DigitVal(b[1]))

\* TRUE iff int(g) returns, FALSE iff it raises ValueError
int_ok(g) == ValidBody(Unsigned(strip(g)))

\* the value int(g) returns
int(g) ==
    LET t == strip(g)
        m == Magnitude(Unsigned(t), 0)
    IN  IF HasSign(t) /\ t[1] = "-" THEN 0 - m ELSE m

----------------------------------------------------------------------------
(* parse_version *)

\* variant: the components come out least significant first
parse_version_Reversed(version_string) ==
    LET groups == split(version_string)
        n == Len(groups)
    IN  IF \E i \in 1..n : ~int_ok(groups[i])
        THEN [ok |-> FALSE, value |-> <<>>]
        ELSE [ok |-> TRUE, value |-> [i \in 1..n |-> int(groups[n + 1 - i])]]

parse_version(version_string) ==
    LET groups == split(version_string)
    IN  IF \E i \in 1..Len(groups) : ~int_ok(groups[i])
        THEN [ok |-> FALSE, value |-> <<>>]
        ELSE [ok |-> TRUE, value |-> [i \in 1..Len(groups) |-> int(groups[i])]]

----------------------------------------------------------------------------
(* compare_versions *)

Min(a, b) == IF a < b THEN a ELSE b

\* variant: the `elif c < r: return False` branch is missing
RECURSIVE scan_NoElif(_, _, _)
scan_NoElif(release, current, i) ==
    IF i > Min(Len(release), Len(current)) THEN FALSE
    ELSE IF current[i] > release[i] THEN TRUE
    ELSE scan_NoElif(release, current, i + 1)

\* variant: the loop falls through to `return True`
RECURSIVE scan_TieTrue(_, _, _)
scan_TieTrue(release, current, i) ==
    IF i > Min(Len(release), Len(current)) THEN TRUE
    ELSE IF current[i] > release[i] THEN TRUE
    ELSE IF current[i] < release[i] THEN FALSE
    ELSE scan_TieTrue(release, current, i + 1)

\* variant: the first test is `c >= r`
RECURSIVE scan_GreaterEq(_, _, _)
scan_GreaterEq(release, current, i) ==
    IF i > Min(Len(release), Len(current)) THEN FALSE
    ELSE IF current[i] >= release[i] THEN TRUE
    ELSE FALSE

\* the loop over zip(release, current), from the pair at index i on
RECURSIVE scan(_, _, _)
scan(release, current, i) ==
    IF i > Min(Len(release), Len(current)) THEN FALSE
    ELSE IF current[i] > release[i] THEN TRUE
    ELSE IF current[i] < release[i] THEN FALSE
    ELSE scan(release, current, i + 1)

\* variant: the length check is missing, zip stops at the shorter version
compare_versions_NoLenCheck(release, current) ==
    [exits |-> FALSE, value |-> scan(release, current, 1)]

\* exits: exit(1) was called; value: the boolean returned otherwise
compare_versions(release, current) ==
    IF Len(release) # Len(current)
    THEN [exits |-> TRUE, value |-> FALSE]
    ELSE [exits |-> FALSE, value |-> scan(release, current, 1)]

----------------------------------------------------------------------------
(* main *)

\* an exception leaves main uncaught: the interpreter ends the process
Uncaught(exception) ==
    /\ raised' = exception
    /\ exit_status' = 1
    /\ pc' = "done"

\* line 27: release_version_string = argv.pop()
PopArg ==
    /\ pc = "pop"
    /\ argv # <<>>
    /\ release_version_string' = argv[Len(argv)]
    /\ argv' = SubSeq(argv, 1, Len(argv) - 1)
    /\ pc' = "parse_release"
    /\ UNCHANGED <<config, config_read, current_version_string,
                   release_version, current_version, is_valid, printed,
                   raised, exit_status>>

\* variant: a release string that fails to parse is only noticed later
ParseRelease_Deferred ==
    /\ pc = "parse_release"
    /\ LET r == parse_version(release_version_string)
       IN  release_version' = r.value
    /\ pc' = "read_config"
    /\ UNCHANGED <<argv, config, config_read, release_version_string,
                   current_version_string, current_version, is_valid, printed,
                   raised, exit_status>>

\* line 29: release_version = parse_version(release_version_string)
ParseRelease ==
    /\ pc = "parse_release"
    /\ LET r == parse_version(release_version_string)
       IN  IF r.ok
           THEN /\ release_version' = r.value
                /\ pc' = "read_config"
                /\ UNCHANGED <<raised, exit_status>>
           ELSE /\ Uncaught("ValueError")
                /\ UNCHANGED release_version
    /\ UNCHANGED <<argv, config, config_read, release_version_string,
                   current_version_string, current_version, is_valid, printed>>

\* line 30: get_raw_config() opens Config.json and builds the Config
ReadConfig ==
    /\ pc = "read_config"
    /\ config_read' = TRUE
    /\ IF config.present
       THEN /\ current_version_string' = config.version
            /\ pc' = "parse_current"
            /\ UNCHANGED <<raised, exit_status>>
       ELSE /\ Uncaught("ConfigError")
            /\ UNCHANGED current_version_string
    /\ UNCHANGED <<argv, config, release_version_string, release_version,
                   current_version, is_valid, printed>>

\* line 30: current_version = get_current_version(config)
ParseCurrent ==
    /\ pc = "parse_current"
    /\ LET r == parse_version(current_version_string)
       IN  IF r.ok
           THEN /\ current_version' = r.value
                /\ pc' = "compare"
                /\ UNCHANGED <<raised, exit_status>>
           ELSE /\ Uncaught("ValueError")
                /\ UNCHANGED current_version
    /\ UNCHANGED <<argv, config, config_read, release_version_string,
                   current_version_string, release_version, is_valid, printed>>

\* line 32: is_valid = compare_versions(release_version, current_version)
Compare ==
    /\ pc = "compare"
    /\ LET r == compare_versions(release_version, current_version)
       IN  IF r.exits
           THEN /\ printed' = "Version formats does not match!"
                /\ exit_status' = 1
                /\ pc' = "done"
                /\ UNCHANGED is_valid
           ELSE /\ is_valid' = r.value
                /\ pc' = "report"
                /\ UNCHANGED <<printed, exit_status>>
    /\ UNCHANGED <<argv, config, config_read, release_version_string,
                   current_version_string, release_version, current_version,
                   raised>>

\* variant: the not-valid branch calls exit(1)
Report_ExitOne ==
    /\ pc = "report"
    /\ IF is_valid
       THEN /\ printed' = "Valid"
            /\ exit_status' = 0
       ELSE /\ printed' = "Not valid"
            /\ exit_status' = 1
    /\ pc' = "done"
    /\ UNCHANGED <<argv, config, config_read, release_version_string,
                   current_version_string, release_version, current_version,
                   is_valid, raised>>

\* lines 34-38: print the verdict; exit(2) when not valid, else main returns
Report ==
    /\ pc = "report"
    /\ IF is_valid
       THEN /\ printed' = "Valid"
            /\ exit_status' = 0
       ELSE /\ printed' = "Not valid"
            /\ exit_status' = 2
    /\ pc' = "done"
    /\ UNCHANGED <<argv, config, config_read, release_version_string,
                   current_version_string, release_version, current_version,
                   is_valid, raised>>

----------------------------------------------------------------------------
(* Specifications *)

ArgStrings == StringsOver(ArgChars, MaxArgLen)

NoConfig == [present |-> FALSE, version |-> <<>>]

\* the locals of main before it has run a statement
Fresh ==
    /\ config_read = FALSE
    /\ release_version_string = <<>>
    /\ current_version_string = <<>>
    /\ release_version = <<>>
    /\ current_version = <<>>
    /\ is_valid = FALSE
    /\ printed = ""
    /\ raised = ""
    /\ exit_status = -1

\* a whole run of main: the last argument and Config.json are the inputs
Init ==
    /\ pc = "pop"
    /\ argv \in {<<s>> : s \in ArgStrings}
    /\ config \in {[present |-> TRUE, version |-> s] : s \in ArgStrings}
                    \cup {NoConfig}
    /\ Fresh

Next ==
    \/ PopArg
    \/ ParseRelease
    \/ ReadConfig
    \/ ParseCurrent
    \/ Compare
    \/ Report

Spec == Init /\ [][Next]_vars

\* parse_version alone, on every string over Chars up to MaxStrLen
InitParse ==
    /\ pc = "pop"
    /\ argv \in {<<s>> : s \in StringsOver(Chars, MaxStrLen)}
    /\ config = NoConfig
    /\ Fresh

NextParse ==
    \/ PopArg
    \/ ParseRelease

SpecParse == InitParse /\ [][NextParse]_vars

\* compare_versions alone, on every pair of Versions within the bounds
Versions == UNION {[1..k -> 0..MaxComponent] : k \in 1..MaxComponents}

InitCompare ==
    /\ pc = "compare"
    /\ argv = <<>>
    /\ config = NoConfig
    /\ config_read = FALSE
    /\ release_version_string = <<>>
    /\ current_version_string = <<>>
    /\ release_version \in Versions
    /\ current_version \in Versions
    /\ is_valid = FALSE
    /\ printed = ""
    /\ raised = ""
    /\ exit_status = -1

NextCompare ==
    \/ Compare
    \/ Report

SpecCompare == InitCompare /\ [][NextCompare]_vars

----------------------------------------------------------------------------
(* Vocabulary of the properties *)

Mismatch == "Version formats does not match!"

SameLen == Len(release_version) = Len(current_version)

\* compare_versions has been called on release_version and current_version
Compared == pc \in {"report", "done"} /\ raised = ""

\* i is the first index at which the two versions differ
FirstDiff(i) ==
    /\ i \in 1..Min(Len(release_version), Len(current_version))
    /\ release_version[i] # current_version[i]
    /\ \A j \in 1..(i-1) : release_version[j] = current_version[j]

\* a is strictly greater than b in lexicographic order, equal lengths
LexGreater(a, b) ==
    \E i \in 1..Len(a) : a[i] > b[i] /\ \A j \in 1..(i-1) : a[j] = b[j]

\* s is non-empty decimal-digit groups separated by single dots
WellFormed(s) ==
    /\ s # <<>>
    /\ \A i \in 1..Len(s) : s[i] \in Digits \cup {"."}
    /\ s[1] # "."
    /\ s[Len(s)] # "."
    /\ \A i \in 1..(Len(s)-1) : ~(s[i] = "." /\ s[i+1] = ".")

Dots(s) == {j \in 1..Len(s) : s[j] = "."}

\* position of the n-th dot of s; 0 and Len(s)+1 stand for the two ends
NthDot(s, n) ==
    IF n = 0 THEN 0
    ELSE IF n > Cardinality(Dots(s)) THEN Len(s) + 1
    ELSE CHOOSE d \in Dots(s) : Cardinality({k \in Dots(s) : k < d}) = n - 1

\* the i-th dot-separated group of s
Group(s, i) == SubSeq(s, NthDot(s, i-1) + 1, NthDot(s, i) - 1)

\* base-10 value of a run of digits
RECURSIVE Decimal(_)
Decimal(g) ==
    IF g = <<>> THEN 0
    ELSE 10 * Decimal(SubSeq(g, 1, Len(g)-1)) + DigitVal(g[Len(g)])

\* parse_version has been applied to release_version_string
Parsed == pc \notin {"pop", "parse_release"}

\* int() raises on some group of s
Malformed(s) == \E i \in 1..(Cardinality(Dots(s)) + 1) : ~int_ok(Group(s, i))

----------------------------------------------------------------------------
(* Properties of compare_versions, under SpecCompare *)

\* C1: for versions of equal length that differ, the verdict is decided by the
\* first differing index i alone: True when current[i] > release[i], False
\* when current[i] < release[i], whatever follows i.
C1_FirstDifferenceDecides ==
    (Compared /\ SameLen /\ release_version # current_version) =>
        /\ printed # Mismatch
        /\ \A i \in 1..Len(release_version) :
              FirstDiff(i) => (is_valid <=> current_version[i] > release_version[i])

C1_Witness ==
    /\ pc = "report"
    /\ SameLen
    /\ Len(release_version) >= 2
    /\ current_version[1] > release_version[1]
    /\ current_version[2] < release_version[2]
    /\ is_valid

\* C2: for equal versions compare_versions returns False and the run ends with
\* exit status 2.
C2_EqualNotAcceptable ==
    (Compared /\ release_version = current_version) =>
        /\ ~is_valid
        /\ printed # Mismatch
        /\ pc = "done" => exit_status = 2

C2_Witness ==
    /\ pc = "done"
    /\ release_version = current_version
    /\ Len(release_version) = MaxComponents
    /\ exit_status = 2
    /\ printed = "Not valid"

\* C3: for versions whose component counts differ compare_versions exits with
\* status 1 and returns no verdict, whatever the component values.
C3_LengthMismatchExits ==
    (pc # "compare" /\ ~SameLen) =>
        /\ pc = "done"
        /\ exit_status = 1
        /\ printed = Mismatch
        /\ raised = ""
        /\ ~is_valid

C3_Witness ==
    /\ pc = "done"
    /\ release_version = <<2, 0, 0>>
    /\ current_version = <<1, 2>>
    /\ exit_status = 1
    /\ printed = Mismatch

\* C5: for versions of equal length the run passes (exit status 0) if and only
\* if release is strictly greater than current in lexicographic order, and
\* fails with exit status 2 otherwise.
C5_PassIffReleaseNewer ==
    (pc = "done" /\ SameLen /\ raised = "") =>
        IF LexGreater(release_version, current_version)
        THEN exit_status = 0
        ELSE exit_status = 2

\* C10: on equal lengths, swapping the arguments flips the verdict of distinct
\* versions, and equal versions give False both ways.
C10_Antisymmetric ==
    (Compared /\ SameLen) =>
        LET swapped == compare_versions(current_version, release_version)
        IN  /\ ~swapped.exits
            /\ release_version # current_version => is_valid # swapped.value
            /\ release_version = current_version => ~is_valid /\ ~swapped.value

C10_Witness ==
    /\ pc = "report"
    /\ SameLen
    /\ release_version # current_version
    /\ ~is_valid
    /\ compare_versions(current_version, release_version).value

----------------------------------------------------------------------------
(* Properties of parse_version, under SpecParse *)

\* C6: parse_version raises for every string with a group that is empty or
\* holds a character that is not a decimal digit, and returns only when every
\* group is a non-empty run of decimal digits.
C6_RejectsNonDigitGroups ==
    Parsed => (raised = "ValueError" <=> ~WellFormed(release_version_string))

\* C7: for a string of k+1 non-empty digit groups separated by k dots,
\* parse_version returns exactly k+1 integers, the i-th being the base-10
\* value of the i-th group.
C7_ParsesGroupsInOrder ==
    (Parsed /\ WellFormed(release_version_string)) =>
        /\ raised = ""
        /\ Len(release_version) = Cardinality(Dots(release_version_string)) + 1
        /\ \A i \in 1..Len(release_version) :
              release_version[i] = Decimal(Group(release_version_string, i))

C7_Witness ==
    /\ pc = "read_config"
    /\ release_version_string = <<"1", "0", ".", "7">>
    /\ release_version = <<10, 7>>

\* C8: every Version parse_version returns holds only non-negative integers.
C8_NonNegativeComponents ==
    (Parsed /\ raised = "") =>
        \A i \in 1..Len(release_version) : release_version[i] >= 0

----------------------------------------------------------------------------
(* Properties of main, under Spec *)

BothParse ==
    /\ ~Malformed(release_version_string)
    /\ config.present
    /\ ~Malformed(config.version)

C4_Terminal ==
    (pc = "done" /\ BothParse) =>
        /\ exit_status \in {0, 1, 2}
        /\ exit_status = 0 <=> (SameLen /\ is_valid)
        /\ exit_status = 2 <=> (SameLen /\ ~is_valid)
        /\ exit_status = 1 <=> ~SameLen
        /\ printed = Mismatch => exit_status = 1

\* C4: a run whose two strings parse ends in exactly one outcome: status 0 iff
\* the verdict is Acceptable, 2 iff it is NotAcceptable, 1 iff the component
\* counts differ; the status, once set, never changes.
C4_OneOutcome ==
    /\ [](C4_Terminal)
    /\ [][exit_status # -1 => exit_status' = exit_status]_vars

C4_Witness ==
    /\ pc = "done"
    /\ BothParse
    /\ SameLen
    /\ exit_status = 0
    /\ printed = "Valid"

\* C9 as stated: a malformed string aborts the run with ParseError, none of
\* the exit statuses 0, 1, 2 is produced, and a malformed release string
\* aborts before the config source is read.
C9_NoExitStatus ==
    (pc = "done" /\ (Malformed(release_version_string)
                       \/ (config.present /\ Malformed(config.version)))) =>
        /\ raised = "ValueError"
        /\ exit_status \notin {0, 1, 2}
        /\ Malformed(release_version_string) => ~config_read

\* C9 amended: both strings are parsed before compare_versions is called,
\* release first; a malformed string aborts the run with ParseError before
\* compare_versions runs, so no verdict or mismatch message is produced even
\* when the component counts differ, and the process ends with the
\* interpreter's status 1 for an uncaught exception; a malformed release
\* string aborts before the config source is read.
C9_ParseErrorFirst ==
    /\ pc \in {"compare", "report"} => BothParse
    /\ config_read => ~Malformed(release_version_string)
    /\ (pc = "done" /\ (Malformed(release_version_string)
                          \/ (config.present /\ Malformed(config.version)))) =>
          /\ raised = "ValueError"
          /\ printed = ""
          /\ exit_status = 1
          /\ current_version = <<>>
          /\ Malformed(release_version_string) =>
                ~config_read /\ release_version = <<>>

C9_Witness ==
    /\ pc = "done"
    /\ ~Malformed(release_version_string)
    /\ config.present
    /\ Malformed(config.version)
    /\ Cardinality(Dots(release_version_string))
          # Cardinality(Dots(config.version))
    /\ raised = "ValueError"
    /\ release_version # <<>>

====
